---- MODULE Spec2Model ----
(***************************************************************************)
(* Model of the SEO rank and competitor analyzer: the domain/URL           *)
(* normalizer and rank resolver (serp_api_client.py), the page analyzer    *)
(* and comparative analysis (seo_analyzer.py) and the submitted-request    *)
(* flow (app.py).                                                          *)
(*                                                                         *)
(* A Python str is a sequence of one-character strings, None is the empty  *)
(* set and a present optional value v is the singleton {v}.                *)
(***************************************************************************)
EXTENDS Integers, Sequences, FiniteSets, TLC

VARIABLES
  d,                \* normalizer input D
  norm,             \* normalize_target_domain of D, "www."+D, "https://www."+D
  organic_results,  \* the raw SERP entries handed to the rank resolver
  target,           \* the target domain or URL handed to the rank resolver
  rank_out,         \* the last resolver call: [op, raised, val]
  page_html,        \* analyze_page's html: None, Some(EmptyHtml) or Some(document)
  page_url,         \* analyze_page's url
  page_keyword,     \* analyze_page's keyword
  page_metrics,     \* None, or Some(the record analyze_page returned)
  an_pc,            \* analyze_target_vs_top: "idle", "running", "returned", "raised"
  an_keyword,       \* its keyword
  an_target_url,    \* its target_url: None or Some(url)
  an_top_urls,      \* its top_urls
  competitors,      \* the records appended so far
  target_analysis,  \* None, or Some(the record of the target page)
  fetch_log,        \* every fetch attempt so far, in order: [url, outcome]
  app_pc,           \* where the submitted request is: "form", "serp", "rank",
                    \* "tables", "seo", "analysis", "explain", "done", "halted"
  keyword_input,    \* the form's keyword
  site_input,       \* the form's site
  serp_key,         \* SERPAPI_API_KEY is set
  groq_key,         \* GROQ_API_KEY is set
  request,          \* site_input_raw, normalized_domain, url_candidate
  ranks,            \* serp_rows and the rank facts computed from the response
  marked_rows,      \* the is_your_site column of the full results table
  net_calls,        \* the calls made to SerpAPI and Groq, in order
  summarizer_calls, \* the ranks summarize_with_groq was called with, in order
  rendered,         \* the sections shown so far, in order
  errors            \* the error messages shown so far: [step, message]

normVars == <<d, norm>>
rankVars == <<organic_results, target, rank_out>>
pageVars == <<page_html, page_url, page_keyword, page_metrics>>
analysisVars == <<an_pc, an_keyword, an_target_url, an_top_urls, competitors,
                  target_analysis, fetch_log>>
appVars == <<app_pc, keyword_input, site_input, serp_key, groq_key, request,
             ranks, marked_rows, net_calls, summarizer_calls, rendered, errors>>
vars == <<normVars, rankVars, pageVars, analysisVars, appVars>>

----------------------------------------------------------------------------
(* Python values *)

None == {}
Some(v) == {v}
The(o) == CHOOSE v \in o : TRUE

MinOf(S) == CHOOSE m \in S : \A n \in S : m <= n
MaxOf(S) == CHOOSE m \in S : \A n \in S : m >= n

Whitespace == {" ", "\n"}

HTTP == <<"h", "t", "t", "p", ":", "/", "/">>
HTTPS == <<"h", "t", "t", "p", "s", ":", "/", "/">>
WWW == <<"w", "w", "w", ".">>

\* str.lower() on the letters the inputs use
LowerChar(c) ==
  CASE c = "A" -> "a"
    [] c = "B" -> "b"
    [] c = "C" -> "c"
    [] c = "K" -> "k"
    [] c = "W" -> "w"
    [] OTHER -> c

Lower(s) == [i \in 1..Len(s) |-> LowerChar(s[i])]

\* str.startswith / str.endswith
StartsWith(s, p) == Len(p) <= Len(s) /\ SubSeq(s, 1, Len(p)) = p
EndsWith(s, p) == Len(p) <= Len(s) /\ SubSeq(s, Len(s) - Len(p) + 1, Len(s)) = p

\* str.strip()
Strip(s) ==
  LET keep == {i \in 1..Len(s) : s[i] \notin Whitespace}
  IN IF keep = {} THEN <<>> ELSE SubSeq(s, MinOf(keep), MaxOf(keep))

\* str.rstrip("/")
RStripSlash(s) ==
  LET keep == {i \in 1..Len(s) : s[i] # "/"}
  IN IF keep = {} THEN <<>> ELSE SubSeq(s, 1, MaxOf(keep))

\* index of the first character of s at or after `from` that is in chars,
\* Len(s) + 1 when there is none
FindFirst(s, chars, from) ==
  MinOf({i \in from..Len(s) : s[i] \in chars} \cup {Len(s) + 1})

\* k in s
Contains(s, k) ==
  \E i \in 1..(Len(s) - Len(k) + 1) : SubSeq(s, i, i + Len(k) - 1) = k

\* characters a URL scheme may hold besides letters and digits have no use here
SchemeChars ==
  {"a", "b", "c", "h", "k", "p", "q", "s", "t", "w", "x",
   "A", "B", "C", "K", "W", "+", "-", "."}
Letters == SchemeChars \ {"+", "-", "."}

\* urlparse(url).netloc: an optional scheme "<letter><scheme chars>*:" is cut
\* off; if what follows starts with "//", the netloc runs from there to the
\* first of "/", "?", "#"; otherwise it is empty.
UrlNetloc(url) ==
  LET i == FindFirst(url, {":"}, 1)
      hasScheme == /\ i > 1
                   /\ i <= Len(url)
                   /\ url[1] \in Letters
                   /\ \A j \in 1..(i - 1) : url[j] \in SchemeChars
      rest == IF hasScheme THEN SubSeq(url, i + 1, Len(url)) ELSE url
  IN IF StartsWith(rest, <<"/", "/">>)
     THEN SubSeq(rest, 3, FindFirst(rest, {"/", "?", "#"}, 3) - 1)
     ELSE <<>>

----------------------------------------------------------------------------
(* serp_api_client.py: the normalizer *)

extract_domain(url) ==
  LET host == Lower(UrlNetloc(url))
  IN IF StartsWith(host, WWW) THEN SubSeq(host, 5, Len(host)) ELSE host

normalize_target_domain(domain_or_url) ==
  LET text == Lower(Strip(domain_or_url))
      cut == IF "/" \in {text[i] : i \in 1..Len(text)}
             THEN SubSeq(text, 1, FindFirst(text, {"/"}, 1) - 1)
             ELSE text
  IN IF StartsWith(text, HTTP) \/ StartsWith(text, HTTPS)
     THEN extract_domain(text)
     ELSE IF StartsWith(cut, WWW) THEN SubSeq(cut, 5, Len(cut)) ELSE cut

----------------------------------------------------------------------------
(* Inputs of the normalizer: every string over DomainAlphabet of at most   *)
(* MaxDomainLen characters.                                                *)

MaxDomainLen == 5

DomainAlphabet == {"a", "w", ".", "/", "?", "A"}

DomainStrings ==
  UNION {[1..n -> DomainAlphabet] : n \in 0..MaxDomainLen}

NormForms == {"bare", "www", "https"}

NormInput(form, D) ==
  CASE form = "bare" -> D
    [] form = "www" -> WWW \o D
    [] form = "https" -> HTTPS \o WWW \o D

NormIdle == d = <<>> /\ norm = [f \in NormForms |-> None]

NormStart ==
  /\ d \in DomainStrings
  /\ norm = [f \in NormForms |-> None]

\* one call normalize_target_domain(<form of D>)
Normalize(form) ==
  /\ norm[form] = None
  /\ norm' = [norm EXCEPT ![form] = Some(normalize_target_domain(NormInput(form, d)))]
  /\ UNCHANGED d
  /\ UNCHANGED <<rankVars, pageVars, analysisVars, appVars>>

NormDone == \A f \in NormForms : norm[f] # None

\* C3: for every domain string D, normalize_target_domain gives the same
\* result for D, "www." + D and "https://www." + D.
C3_NormalizeFormsAgree ==
  NormDone => (norm["https"] = norm["bare"] /\ norm["bare"] = norm["www"])

----------------------------------------------------------------------------
(* serp_api_client.py: the rank resolver.  A SERP entry is a record that   *)
(* holds some of the fields link, position, title, snippet;                *)
(* result.get(k) is Get(result, k).                                        *)

Get(r, k) == IF k \in DOMAIN r THEN Some(r[k]) ELSE None
GetOr(r, k, dflt) == IF k \in DOMAIN r THEN r[k] ELSE dflt

\* the guard with `link is None` for `not link`
SkippedUnlessEmptyLink(result) ==
  \/ Get(result, "link") = None
  \/ Get(result, "position") = None

\* `if not link or position is None: continue`
Skipped(result) ==
  \/ Get(result, "link") = None
  \/ The(Get(result, "link")) = <<>>
  \/ Get(result, "position") = None

\* an entry that is not skipped reaches extract_domain(link), link.rstrip and
\* the sort on position: with a None there, Python raises TypeError
Raises(results) ==
  \E i \in 1..Len(results) :
     /\ ~Skipped(results[i])
     /\ (Get(results[i], "link") = None \/ Get(results[i], "position") = None)

\* `domain == target_domain or domain.endswith("." + target_domain)`
DomainMatch(domain, target_domain) ==
  domain = target_domain \/ EndsWith(domain, <<".">> \o target_domain)

\* list.sort(key=lambda x: x["position"]): stable, ascending
SortByPosition(rows) ==
  LET n == Len(rows)
      before(j, i) ==
        \/ rows[j].position < rows[i].position
        \/ (rows[j].position = rows[i].position /\ j < i)
      place(i) == Cardinality({j \in 1..n : before(j, i)}) + 1
  IN [k \in 1..n |-> rows[CHOOSE i \in 1..n : place(i) = k]]

find_domain_rank(results, target_domain) ==
  LET t == normalize_target_domain(target_domain)
      hit(result) == /\ ~Skipped(result)
                     /\ DomainMatch(extract_domain(result.link), t)
      hits == {i \in 1..Len(results) : hit(results[i])}
  IN IF hits = {} THEN <<None, None>>
     ELSE LET first == results[MinOf(hits)]
          IN <<Some(first.position), Some(first.link)>>

find_all_domain_positions(results, target_domain) ==
  LET t == normalize_target_domain(target_domain)
      hit(result) == /\ ~Skipped(result)
                     /\ DomainMatch(extract_domain(result.link), t)
      matched == SelectSeq(results, hit)
      hits == [i \in 1..Len(matched) |->
                 [position |-> matched[i].position, url |-> matched[i].link]]
  IN SortByPosition(hits)

\* `target_url.strip()`, "https://" put before a leading "www.", rstrip("/")
url_target_norm(target_url) ==
  LET stripped == Strip(target_url)
      schemed == IF StartsWith(stripped, WWW) THEN HTTPS \o stripped ELSE stripped
  IN RStripSlash(schemed)

\* the match without its startswith rule
UrlMatchEqualOnly(link_norm, target_norm) == link_norm = target_norm

\* `link_norm == target_norm or link_norm.startswith(target_norm + "?")`
UrlMatch(link_norm, target_norm) ==
  link_norm = target_norm \/ StartsWith(link_norm, target_norm \o <<"?">>)

find_url_rank(results, target_url) ==
  LET target_norm == url_target_norm(target_url)
      hit(result) == /\ ~Skipped(result)
                     /\ UrlMatch(RStripSlash(result.link), target_norm)
      hits == {i \in 1..Len(results) : hit(results[i])}
  IN IF Strip(target_url) = <<>> \/ hits = {} THEN <<None, None>>
     ELSE LET first == results[MinOf(hits)]
          IN <<Some(first.position), Some(first.link)>>

normalize_serp_results(results) ==
  LET kept(result) == ~Skipped(result)
      usable == SelectSeq(results, kept)
      cleaned == [i \in 1..Len(usable) |->
                    [position |-> usable[i].position,
                     title |-> GetOr(usable[i], "title", <<>>),
                     snippet |-> GetOr(usable[i], "snippet", <<>>),
                     link |-> usable[i].link,
                     domain |-> extract_domain(usable[i].link)]]
  IN SortByPosition(cleaned)

----------------------------------------------------------------------------
(* Inputs of the rank resolver: every list of at most MaxResults entries   *)
(* of EntryPool, and every target of RankTargets.                          *)

MaxResults == 2

Hosts == {<<"a", ".", "c">>, <<"b", ".", "a", ".", "c">>}
Queries == {<<"q">>}

RootLink(H) == HTTPS \o H \o <<"/">>
SlashQueryLink(H, q) == HTTPS \o H \o <<"/", "?">> \o q
WwwQueryLink(H, q) == HTTPS \o WWW \o H \o <<"?">> \o q

RankLinks ==
  {<<>>, RootLink(<<"a", ".", "c">>), RootLink(<<"x", "a", ".", "c">>)}
    \cup {SlashQueryLink(H, q) : H \in Hosts, q \in Queries}
    \cup {WwwQueryLink(H, q) : H \in Hosts, q \in Queries}

RankPositions == {1, 2}

EntryTitle == <<"t">>

EntryPool ==
  {[title |-> EntryTitle]}
    \cup {[title |-> EntryTitle, link |-> l] : l \in RankLinks}
    \cup {[title |-> EntryTitle, position |-> p] : p \in RankPositions}
    \cup {[title |-> EntryTitle, link |-> l, position |-> p] :
            l \in RankLinks, p \in RankPositions}

ResultLists == UNION {[1..n -> EntryPool] : n \in 0..MaxResults}

RankTargets ==
  {<<>>, <<"a", ".", "c">>, RootLink(<<"a", ".", "c">>)}
    \cup {WWW \o H : H \in Hosts}

NoCall == [op |-> "none", raised |-> FALSE, val |-> <<>>]

Returned(op, results, val) ==
  IF Raises(results) THEN [op |-> op, raised |-> TRUE, val |-> <<>>]
  ELSE [op |-> op, raised |-> FALSE, val |-> val]

RankIdle == organic_results = <<>> /\ target = <<>> /\ rank_out = NoCall

RankStart ==
  /\ organic_results \in ResultLists
  /\ target \in RankTargets
  /\ rank_out = NoCall

FindDomainRank ==
  /\ rank_out.op = "none"
  /\ rank_out' = Returned("find_domain_rank", organic_results,
                          find_domain_rank(organic_results, target))
  /\ UNCHANGED <<organic_results, target>>
  /\ UNCHANGED <<normVars, pageVars, analysisVars, appVars>>

FindAllDomainPositions ==
  /\ rank_out.op = "none"
  /\ rank_out' = Returned("find_all_domain_positions", organic_results,
                          find_all_domain_positions(organic_results, target))
  /\ UNCHANGED <<organic_results, target>>
  /\ UNCHANGED <<normVars, pageVars, analysisVars, appVars>>

FindUrlRank ==
  /\ rank_out.op = "none"
  /\ rank_out' = Returned("find_url_rank", organic_results,
                          find_url_rank(organic_results, target))
  /\ UNCHANGED <<organic_results, target>>
  /\ UNCHANGED <<normVars, pageVars, analysisVars, appVars>>

NormalizeSerpResults ==
  /\ rank_out.op = "none"
  /\ rank_out' = Returned("normalize_serp_results", organic_results,
                          normalize_serp_results(organic_results))
  /\ UNCHANGED <<organic_results, target>>
  /\ UNCHANGED <<normVars, pageVars, analysisVars, appVars>>

\* the entries of organic_results a domain lookup for `target` may report:
\* a non-empty link, a position, and a domain equal to the normalized
\* target or ending with "." + it
Matching(i) ==
  LET r == organic_results[i]
      t == normalize_target_domain(target)
      dom == extract_domain(r.link)
  IN /\ "link" \in DOMAIN r
     /\ r.link # <<>>
     /\ "position" \in DOMAIN r
     /\ (dom = t \/ EndsWith(dom, <<".">> \o t))

MatchingEntries == {i \in 1..Len(organic_results) : Matching(i)}

\* C1: a rank returned by find_domain_rank is the minimum position among
\* the matching entries, whatever the order of the list.
C1_DomainRankIsMinPosition ==
  (rank_out.op = "find_domain_rank" /\ ~rank_out.raised /\ rank_out.val[1] # None)
    => /\ \E i \in MatchingEntries :
            organic_results[i].position = The(rank_out.val[1])
       /\ \A i \in MatchingEntries :
            The(rank_out.val[1]) <= organic_results[i].position

\* C2: find_all_domain_positions is sorted ascending by position and, when
\* non-empty, its first element is the (rank, url) of find_domain_rank.
C2_AllPositionsSortedFirstIsRank ==
  (rank_out.op = "find_all_domain_positions" /\ ~rank_out.raised)
    => LET hits == rank_out.val
       IN /\ \A i \in 1..(Len(hits) - 1) : hits[i].position <= hits[i + 1].position
          /\ hits # <<>> =>
               <<Some(hits[1].position), Some(hits[1].url)>>
                 = find_domain_rank(organic_results, target)

\* the entries of organic_results that have a non-empty link
LinkedEntries ==
  {i \in 1..Len(organic_results) :
     "link" \in DOMAIN organic_results[i] /\ organic_results[i].link # <<>>}

\* find_url_rank was called with target "www." + H on a list whose only
\* entry with a link has a position and the link `link`
OnlyLinkedCase(H, link) ==
  /\ rank_out.op = "find_url_rank"
  /\ ~rank_out.raised
  /\ target = WWW \o H
  /\ \E i \in LinkedEntries :
        /\ LinkedEntries = {i}
        /\ organic_results[i].link = link
        /\ "position" \in DOMAIN organic_results[i]

ReportsOnlyLinked ==
  \E i \in LinkedEntries :
     rank_out.val = <<Some(organic_results[i].position), Some(organic_results[i].link)>>

\* C4 as stated: target "www." + H is normalized to "https://" + H and the
\* only linked entry, "https://" + H + "/?" + query at position p, is
\* returned with rank p.
C4_WwwTargetFindsSlashQueryLink ==
  \A H \in Hosts, q \in Queries :
     OnlyLinkedCase(H, SlashQueryLink(H, q))
       => /\ url_target_norm(target) = HTTPS \o H
          /\ ReportsOnlyLinked

\* C4 amended: target "www." + H is normalized to "https://www." + H; the
\* only linked entry "https://www." + H + "?" + query at position p is
\* returned with rank p, matched by the rule 'link starts with target + "?"',
\* and the only linked entry "https://" + H + "/?" + query is not matched.
C4_WwwTargetFindsWwwQueryLink ==
  \A H \in Hosts, q \in Queries :
     /\ OnlyLinkedCase(H, WwwQueryLink(H, q))
          => /\ url_target_norm(target) = HTTPS \o WWW \o H
             /\ ReportsOnlyLinked
             /\ RStripSlash(WwwQueryLink(H, q)) # url_target_norm(target)
             /\ StartsWith(RStripSlash(WwwQueryLink(H, q)),
                           url_target_norm(target) \o <<"?">>)
     /\ OnlyLinkedCase(H, SlashQueryLink(H, q))
          => rank_out.val = <<None, None>>

C4_Witness ==
  \E H \in Hosts, q \in Queries :
     /\ OnlyLinkedCase(H, WwwQueryLink(H, q))
     /\ Len(organic_results) = 2
     /\ rank_out.val[1] = Some(2)

\* the entries a lookup may report: a non-empty link and a position
UsableEntries ==
  {i \in LinkedEntries : "position" \in DOMAIN organic_results[i]}

\* the usable entries whose link, without trailing slashes, is the target
\* URL (stripped, "https://" put before a leading "www.", without trailing
\* slashes) or starts with it and "?"
UrlMatchingEntries ==
  LET t == url_target_norm(target)
  IN {i \in UsableEntries :
        \/ RStripSlash(organic_results[i].link) = t
        \/ StartsWith(RStripSlash(organic_results[i].link), t \o <<"?">>)}

\* C10: no resolver call fails; what a call reports comes from entries with
\* a non-empty link and a position only (normalize_serp_results reports each
\* of them once); with no matching entry find_domain_rank and find_url_rank
\* return (None, None) and find_all_domain_positions returns [].
C10_SkippedEntriesNeverReported ==
  /\ ~rank_out.raised
  /\ rank_out.op \in {"find_domain_rank", "find_url_rank"} =>
       \/ rank_out.val = <<None, None>>
       \/ \E i \in UsableEntries :
             rank_out.val = <<Some(organic_results[i].position),
                              Some(organic_results[i].link)>>
  /\ (rank_out.op = "find_domain_rank" /\ MatchingEntries = {}) =>
       rank_out.val = <<None, None>>
  /\ (rank_out.op = "find_url_rank" /\ UrlMatchingEntries = {}) =>
       rank_out.val = <<None, None>>
  /\ rank_out.op = "find_all_domain_positions" =>
       /\ \A k \in 1..Len(rank_out.val) :
             \E i \in UsableEntries :
                rank_out.val[k] = [position |-> organic_results[i].position,
                                   url |-> organic_results[i].link]
       /\ MatchingEntries = {} => rank_out.val = <<>>
  /\ rank_out.op = "normalize_serp_results" =>
       /\ Len(rank_out.val) = Cardinality(UsableEntries)
       /\ \A k \in 1..Len(rank_out.val) :
             \E i \in UsableEntries :
                /\ rank_out.val[k].position = organic_results[i].position
                /\ rank_out.val[k].link = organic_results[i].link

\* a list with an entry without link, one with an empty link or without
\* position, and no entry of the target domain
C10_Witness ==
  /\ rank_out.op = "find_domain_rank"
  /\ rank_out.val = <<None, None>>
  /\ Len(organic_results) = 2
  /\ Cardinality(UsableEntries) < 2
  /\ \E i \in 1..2 : "link" \notin DOMAIN organic_results[i]
  /\ target # <<>>

----------------------------------------------------------------------------
(* seo_analyzer.py: the page analyzer.  A non-empty HTML text is given by  *)
(* what BeautifulSoup finds in it: the text of the first <title> and <h1>  *)
(* (None without the tag), the content of <meta name="description">, and   *)
(* `text`, what soup.get_text(separator=" ") yields once script, style and *)
(* noscript are removed.  The empty HTML text is EmptyHtml.                *)

EmptyHtml == [title |-> None, meta_description |-> None, h1 |-> None,
              text |-> <<>>, empty |-> TRUE]

\* re.sub(r"\s+", " ", text) on text[lo..hi]: the first character of a run of
\* whitespace becomes " ", the others go
RECURSIVE CollapseRange(_, _, _)
CollapseRange(text, lo, hi) ==
  IF lo > hi THEN <<>>
  ELSE IF lo = hi
  THEN (IF text[lo] \notin Whitespace THEN <<text[lo]>>
        ELSE IF lo > 1 /\ text[lo - 1] \in Whitespace THEN <<>>
        ELSE <<" ">>)
  ELSE LET mid == (lo + hi) \div 2
       IN CollapseRange(text, lo, mid) \o CollapseRange(text, mid + 1, hi)

CollapseWhitespace(text) == CollapseRange(text, 1, Len(text))

\* len([w for w in text.split(" ") if w.strip()]) for a text whose only
\* whitespace is single spaces: the number of places where a word starts
WordCount(text) ==
  Cardinality({i \in 1..Len(text) :
                 text[i] # " " /\ (i = 1 \/ text[i - 1] = " ")})

MatchAt(text, k, i) == \A j \in 1..Len(k) : text[i + j - 1] = k[j]

\* the left-to-right scan of str.count over the start positions lo..hi:
\* `skip` positions are still covered by the last occurrence counted; a
\* position not covered where k occurs counts and covers the next Len(k) - 1.
\* The range is scanned as its left half, then its right half from where the
\* left half ended (the one-element sets bind each half's result as a value).
RECURSIVE ScanCount(_, _, _, _, _)
ScanCount(text, k, lo, hi, skip) ==
  IF lo > hi THEN [skip |-> skip, n |-> 0]
  ELSE IF lo = hi
  THEN (IF skip > 0 THEN [skip |-> skip - 1, n |-> 0]
        ELSE IF MatchAt(text, k, lo) THEN [skip |-> Len(k) - 1, n |-> 1]
        ELSE [skip |-> 0, n |-> 0])
  ELSE LET mid == (lo + hi) \div 2
       IN CHOOSE out \in
            UNION {{[skip |-> right.skip, n |-> left.n + right.n] :
                      right \in {ScanCount(text, k, mid + 1, hi, left.skip)}} :
                   left \in {ScanCount(text, k, lo, mid, skip)}} : TRUE

\* text.count(k): non-overlapping occurrences; len(text) + 1 for the empty k
Count(text, k) ==
  IF k = <<>> THEN Len(text) + 1
  ELSE ScanCount(text, k, 1, Len(text) - Len(k) + 1, 0).n

\* str.replace(" ", "-")
Hyphenate(s) == [i \in 1..Len(s) |-> IF s[i] = " " THEN "-" ELSE s[i]]

\* the bands of the score; a density is the fraction num/den
WordCountMin == 800
WordCountMax == 2500
DensityMinPerMille == 5
DensityMaxPerMille == 30

InWordBand(word_count) == WordCountMin <= word_count /\ word_count <= WordCountMax

InDensityBand(density) ==
  /\ DensityMinPerMille * density.den <= 1000 * density.num
  /\ 1000 * density.num <= DensityMaxPerMille * density.den

\* the band with `800 < word_count`
ScoreStrictWordBand(in_title, in_h1, in_description, in_url, word_count, density) ==
  (IF in_title THEN 2 ELSE 0) + (IF in_h1 THEN 2 ELSE 0)
    + (IF in_description THEN 1 ELSE 0) + (IF in_url THEN 1 ELSE 0)
    + (IF WordCountMin < word_count /\ word_count <= WordCountMax THEN 2 ELSE 0)
    + (IF InDensityBand(density) THEN 1 ELSE 0)

\* `score = 0` and the six `if ...: score += n`
Score(in_title, in_h1, in_description, in_url, word_count, density) ==
  LET s0 == 0
      s1 == IF in_title THEN s0 + 2 ELSE s0
      s2 == IF in_h1 THEN s1 + 2 ELSE s1
      s3 == IF in_description THEN s2 + 1 ELSE s2
      s4 == IF in_url THEN s3 + 1 ELSE s3
      s5 == IF InWordBand(word_count) THEN s4 + 2 ELSE s4
      s6 == IF InDensityBand(density) THEN s5 + 1 ELSE s5
  IN s6

\* the zeroed record with the url left out
ZeroedMetricsNoUrl(url) ==
  [url |-> <<>>, title |-> <<>>, meta_description |-> <<>>, h1 |-> <<>>,
   word_count |-> 0, keyword_in_title |-> FALSE,
   keyword_in_description |-> FALSE, keyword_in_h1 |-> FALSE,
   keyword_in_url |-> FALSE, keyword_density |-> [num |-> 0, den |-> 1],
   score |-> 0]

\* the record returned under `if not html:`; 0.0 is 0/1
ZeroedMetrics(url) ==
  [url |-> url, title |-> <<>>, meta_description |-> <<>>, h1 |-> <<>>,
   word_count |-> 0, keyword_in_title |-> FALSE,
   keyword_in_description |-> FALSE, keyword_in_h1 |-> FALSE,
   keyword_in_url |-> FALSE, keyword_density |-> [num |-> 0, den |-> 1],
   score |-> 0]

\* get_text(strip=True) of a tag, "" without the tag
TagText(tag) == IF tag = None THEN <<>> ELSE Strip(The(tag))

analyze_page(html, url, keyword) ==
  IF html = None \/ The(html).empty THEN ZeroedMetrics(url)
  ELSE
    LET soup == The(html)
        keyword_lower == Lower(keyword)
        title == TagText(soup.title)
        meta_description == TagText(soup.meta_description)
        h1 == TagText(soup.h1)
        text == CollapseWhitespace(soup.text)
        word_count == WordCount(text)
        keyword_count == Count(Lower(text), keyword_lower)
        keyword_density == IF word_count > 0
                           THEN [num |-> keyword_count, den |-> word_count]
                           ELSE [num |-> 0, den |-> 1]
        keyword_in_title == Contains(Lower(title), keyword_lower)
        keyword_in_description == Contains(Lower(meta_description), keyword_lower)
        keyword_in_h1 == Contains(Lower(h1), keyword_lower)
        keyword_in_url == \/ Contains(Lower(url), Hyphenate(keyword_lower))
                          \/ Contains(Lower(url), keyword_lower)
    IN [url |-> url, title |-> title,
        meta_description |-> meta_description, h1 |-> h1,
        word_count |-> word_count,
        keyword_in_title |-> keyword_in_title,
        keyword_in_description |-> keyword_in_description,
        keyword_in_h1 |-> keyword_in_h1,
        keyword_in_url |-> keyword_in_url,
        keyword_density |-> keyword_density,
        score |-> Score(keyword_in_title, keyword_in_h1, keyword_in_description,
                        keyword_in_url, word_count, keyword_density)]

----------------------------------------------------------------------------
(* Inputs of the page analyzer: documents whose text is any string over    *)
(* TextAlphabet of at most MaxTextLen characters, or `words` one-letter    *)
(* words of which `hits` are "k", at the edges of the two bands.           *)

MaxTextLen == 3

TextAlphabet == {"k", "x", " ", "\n"}

ShortTexts == UNION {[1..n -> TextAlphabet] : n \in 0..MaxTextLen}

Repeat(unit, n) == [i \in 1..(n * Len(unit)) |-> unit[((i - 1) % Len(unit)) + 1]]

LongText(hits, words) ==
  Repeat(<<"k", " ">>, hits) \o Repeat(<<"x", "\n">>, words - hits)

\* the least and the greatest number of hits in `words` words whose density
\* is inside the density band
MinHits(words) ==
  MinOf({h \in 0..words : InDensityBand([num |-> h, den |-> words])})
MaxHits(words) ==
  MaxOf({h \in 0..words : InDensityBand([num |-> h, den |-> words])})

LongTexts ==
  {LongText(MinHits(WordCountMin), WordCountMin),
   LongText(MinHits(WordCountMin) - 1, WordCountMin - 1),
   LongText(MaxHits(WordCountMin) + 1, WordCountMin),
   LongText(MaxHits(WordCountMax), WordCountMax),
   LongText(MinHits(WordCountMax) - 1, WordCountMax),
   LongText(MinHits(WordCountMax + 1), WordCountMax + 1)}

Tags == {None, Some(<<" ", "K", " ", "x", " ">>)}

Documents ==
  {[title |-> t, meta_description |-> m, h1 |-> h, text |-> b, empty |-> FALSE] :
     t \in Tags, m \in Tags, h \in Tags, b \in ShortTexts \cup LongTexts}

Htmls == {None, Some(EmptyHtml)} \cup {Some(doc) : doc \in Documents}

PageUrls == {HTTPS \o <<"a", ".", "c", "/">>,
             HTTPS \o <<"a", ".", "c", "/", "K", "-", "x">>}

Keywords == {<<>>, <<"k">>, <<"k", " ", "X">>, <<"k", "k">>}

PageIdle ==
  /\ page_html = None
  /\ page_url = <<>>
  /\ page_keyword = <<>>
  /\ page_metrics = None

PageStart ==
  /\ page_html \in Htmls
  /\ page_url \in PageUrls
  /\ page_keyword \in Keywords
  /\ page_metrics = None

AnalyzePage ==
  /\ page_metrics = None
  /\ page_metrics' = Some(analyze_page(page_html, page_url, page_keyword))
  /\ UNCHANGED <<page_html, page_url, page_keyword>>
  /\ UNCHANGED <<normVars, rankVars, analysisVars, appVars>>

\* analyze_page has returned for an HTML text that is present
AnalyzedDocument ==
  page_metrics # None /\ page_html # None /\ ~The(page_html).empty

Points(weight, condition) == IF condition THEN weight ELSE 0

\* C5: with HTML present the score is 2*[title] + 2*[h1] + 1*[description]
\* + 1*[url] + 2*[800 <= word_count <= 2500] + 1*[0.005 <= density <= 0.03],
\* an integer in 0..9, and making one more condition true never lowers it.
C5_ScoreIsWeightedSum ==
  AnalyzedDocument =>
    LET m == The(page_metrics)
        dens == m.keyword_density
    IN /\ m.score =
            Points(2, m.keyword_in_title) + Points(2, m.keyword_in_h1)
              + Points(1, m.keyword_in_description) + Points(1, m.keyword_in_url)
              + Points(2, 800 <= m.word_count /\ m.word_count <= 2500)
              + Points(1, 5 * dens.den <= 1000 * dens.num
                            /\ 100 * dens.num <= 3 * dens.den)
       /\ m.score \in 0..9
       /\ m.score <= Score(TRUE, m.keyword_in_h1, m.keyword_in_description,
                           m.keyword_in_url, m.word_count, dens)
       /\ m.score <= Score(m.keyword_in_title, TRUE, m.keyword_in_description,
                           m.keyword_in_url, m.word_count, dens)
       /\ m.score <= Score(m.keyword_in_title, m.keyword_in_h1, TRUE,
                           m.keyword_in_url, m.word_count, dens)
       /\ m.score <= Score(m.keyword_in_title, m.keyword_in_h1,
                           m.keyword_in_description, TRUE, m.word_count, dens)
       /\ m.score <= Score(m.keyword_in_title, m.keyword_in_h1,
                           m.keyword_in_description, m.keyword_in_url, 800, dens)
       /\ m.score <= Score(m.keyword_in_title, m.keyword_in_h1,
                           m.keyword_in_description, m.keyword_in_url,
                           m.word_count, [num |-> 1, den |-> 100])

\* the keyword is in the title only, 800 words, density 4/800: score 5
C5_Witness ==
  /\ AnalyzedDocument
  /\ The(page_metrics).keyword_in_title
  /\ ~The(page_metrics).keyword_in_h1
  /\ ~The(page_metrics).keyword_in_description
  /\ ~The(page_metrics).keyword_in_url
  /\ The(page_metrics).word_count = 800
  /\ The(page_metrics).keyword_density = [num |-> 4, den |-> 800]
  /\ The(page_metrics).score = 5

\* C6: with HTML present the keyword density lies in [0, 1] and is 0.0 when
\* word_count is 0.
C6_DensityInUnitInterval ==
  AnalyzedDocument =>
    LET m == The(page_metrics)
    IN /\ 0 <= m.keyword_density.num
       /\ m.keyword_density.num <= m.keyword_density.den
       /\ m.word_count = 0 => m.keyword_density.num = 0

\* C7: with absent HTML analyze_page returns the zeroed record carrying the
\* given url, whatever the keyword.
C7_AbsentHtmlGivesZeroedRecord ==
  (page_metrics # None /\ page_html = None) =>
    LET m == The(page_metrics)
    IN /\ m.url = page_url
       /\ m.score = 0
       /\ m.word_count = 0
       /\ m.keyword_density = [num |-> 0, den |-> 1]
       /\ m.title = <<>> /\ m.meta_description = <<>> /\ m.h1 = <<>>
       /\ ~m.keyword_in_title /\ ~m.keyword_in_description
       /\ ~m.keyword_in_h1 /\ ~m.keyword_in_url

\* absent HTML and a keyword that occurs in the url
C7_Witness ==
  /\ page_metrics # None
  /\ page_html = None
  /\ page_keyword # <<>>
  /\ Contains(Lower(page_url), Lower(page_keyword))

----------------------------------------------------------------------------
(* seo_analyzer.py: fetch_page_html and analyze_target_vs_top.  A fetch    *)
(* attempt either succeeds and yields the text served at the url, or ends  *)
(* in an exception of requests (timeout, HTTP status, connection).         *)

FetchOutcomes == {"ok", "error"}

PageA == HTTPS \o <<"a", ".", "c", "/">>
PageB == HTTPS \o <<"b", ".", "a", ".", "c", "/", "k">>
PageX == HTTPS \o <<"x", "a", ".", "c", "/">>

\* what each url serves
Web(url) ==
  CASE url = PageA ->
         [title |-> Some(<<"k">>), meta_description |-> None, h1 |-> None,
          text |-> <<"k", " ", "x">>, empty |-> FALSE]
    [] url = PageB ->
         [title |-> None, meta_description |-> Some(<<"k">>), h1 |-> Some(<<"x">>),
          text |-> <<"x", "\n", "x">>, empty |-> FALSE]
    [] OTHER -> EmptyHtml

\* fetch_page_html with the exception let through
fetch_page_html_uncaught(outcome, url) ==
  IF outcome = "ok" THEN [raised |-> FALSE, html |-> Some(Web(url))]
  ELSE [raised |-> TRUE, html |-> None]

\* `try: ... return resp.text` / `except Exception: ... return None`
fetch_page_html(outcome, url) ==
  IF outcome = "ok" THEN [raised |-> FALSE, html |-> Some(Web(url))]
  ELSE [raised |-> FALSE, html |-> None]

\* `if target_url:`
TargetSupplied == an_target_url # None /\ The(an_target_url) # <<>>

\* one round of `for url in top_urls`
FetchCompetitor ==
  /\ an_pc = "running"
  /\ Len(competitors) < Len(an_top_urls)
  /\ \E outcome \in FetchOutcomes, u \in {an_top_urls[Len(competitors) + 1]} :
        \E fetched \in {fetch_page_html(outcome, u)} :
           /\ fetch_log' = Append(fetch_log, [url |-> u, outcome |-> outcome])
           /\ IF fetched.raised
              THEN an_pc' = "raised" /\ UNCHANGED competitors
              ELSE /\ competitors' =
                        Append(competitors, analyze_page(fetched.html, u, an_keyword))
                   /\ UNCHANGED an_pc
  /\ UNCHANGED <<an_keyword, an_target_url, an_top_urls, target_analysis>>
  /\ UNCHANGED <<normVars, rankVars, pageVars, appVars>>

\* after the loop, `if target_url:` taken: fetch, analyze, return
FetchTarget ==
  /\ an_pc = "running"
  /\ Len(competitors) = Len(an_top_urls)
  /\ TargetSupplied
  /\ \E outcome \in FetchOutcomes, u \in {The(an_target_url)} :
        \E fetched \in {fetch_page_html(outcome, u)} :
           /\ fetch_log' = Append(fetch_log, [url |-> u, outcome |-> outcome])
           /\ IF fetched.raised
              THEN an_pc' = "raised" /\ UNCHANGED target_analysis
              ELSE /\ target_analysis' = Some(analyze_page(fetched.html, u, an_keyword))
                   /\ an_pc' = "returned"
  /\ UNCHANGED <<an_keyword, an_target_url, an_top_urls, competitors>>
  /\ UNCHANGED <<normVars, rankVars, pageVars, appVars>>

\* after the loop, `if target_url:` not taken: return with target None
ReturnWithoutTarget ==
  /\ an_pc = "running"
  /\ Len(competitors) = Len(an_top_urls)
  /\ ~TargetSupplied
  /\ an_pc' = "returned"
  /\ UNCHANGED <<an_keyword, an_target_url, an_top_urls, competitors,
                 target_analysis, fetch_log>>
  /\ UNCHANGED <<normVars, rankVars, pageVars, appVars>>

AnalysisStep == FetchCompetitor \/ FetchTarget \/ ReturnWithoutTarget

----------------------------------------------------------------------------
(* Inputs of analyze_target_vs_top: every list of at most MaxTopUrls urls, *)
(* a target that is None, "" or a url, and a keyword.                      *)

MaxTopUrls == 2

AnalysisUrls == {PageA, PageX}

AnalysisIdle ==
  /\ an_pc = "idle"
  /\ an_keyword = <<>>
  /\ an_target_url = None
  /\ an_top_urls = <<>>
  /\ competitors = <<>>
  /\ target_analysis = None
  /\ fetch_log = <<>>

AnalysisStart ==
  /\ an_pc = "running"
  /\ an_keyword \in {<<"k">>, <<"x", " ", "k">>}
  /\ an_target_url \in {None, Some(<<>>), Some(PageA), Some(PageB)}
  /\ an_top_urls \in UNION {[1..n -> AnalysisUrls] : n \in 0..MaxTopUrls}
  /\ competitors = <<>>
  /\ target_analysis = None
  /\ fetch_log = <<>>

\* the fetches analyze_target_vs_top owes: one per top url, in order, then
\* one for the target url if one was supplied
OwedFetches ==
  an_top_urls \o (IF an_target_url # None /\ The(an_target_url) # <<>>
                  THEN <<The(an_target_url)>> ELSE <<>>)

FetchedUrls == [i \in 1..Len(fetch_log) |-> fetch_log[i].url]

ZeroedFor(u) ==
  [url |-> u, title |-> <<>>, meta_description |-> <<>>, h1 |-> <<>>,
   word_count |-> 0, keyword_in_title |-> FALSE,
   keyword_in_description |-> FALSE, keyword_in_h1 |-> FALSE,
   keyword_in_url |-> FALSE, keyword_density |-> [num |-> 0, den |-> 1],
   score |-> 0]

\* what holds of every state of a call: the fetches made so far are the
\* first ones owed, each once and in order, and each record appended so far
\* is that of its url, the zeroed one when its fetch failed
FetchesAsOwed ==
  /\ an_pc # "raised"
  /\ Len(fetch_log) <= Len(OwedFetches)
  /\ FetchedUrls = SubSeq(OwedFetches, 1, Len(fetch_log))
  /\ Len(competitors) <= Len(an_top_urls)
  /\ \A i \in 1..Len(competitors) :
        /\ competitors[i].url = an_top_urls[i]
        /\ fetch_log[i].outcome # "ok" => competitors[i] = ZeroedFor(an_top_urls[i])
  /\ an_pc = "returned" =>
        /\ FetchedUrls = OwedFetches
        /\ Len(competitors) = Len(an_top_urls)
        /\ target_analysis = None
             <=> (an_target_url = None \/ The(an_target_url) = <<>>)
        /\ target_analysis # None =>
             /\ The(target_analysis).url = The(an_target_url)
             /\ fetch_log[Len(fetch_log)].outcome # "ok" =>
                  The(target_analysis) = ZeroedFor(The(an_target_url))

\* C8: analyze_target_vs_top fetches once per entry of top_urls, in input
\* order, then once for the target url if supplied, never again after a
\* failure; no fetch failure propagates and the call always returns;
\* competitors[i].url = top_urls[i]; a failed fetch contributes the zeroed
\* record; at the return competitors is as long as top_urls and target is
\* None exactly when no target url was supplied.
C8_OneFetchPerUrlInOrder == []FetchesAsOwed /\ <>(an_pc = "returned")

\* a failed fetch of the first of two competitors, the same url fetched
\* again with success as the second, and a failed target fetch
C8_Witness ==
  /\ an_pc = "returned"
  /\ Len(an_top_urls) = 2
  /\ an_top_urls[1] = an_top_urls[2]
  /\ Len(fetch_log) = 3
  /\ fetch_log[1].outcome = "error"
  /\ fetch_log[2].outcome = "ok"
  /\ fetch_log[3].outcome = "error"
  /\ The(target_analysis).score = 0
  /\ competitors[2].score > 0

----------------------------------------------------------------------------
(* app.py: the run of the script after "Analyze" is pressed, section by    *)
(* section.  An exception anywhere inside the try block ends in            *)
(* st.error("Something went wrong: ...") and st.stop().                    *)

PageSize == 10
TopCompetitors == 3
TopRank == 3

ConfigError == "SERPAPI_API_KEY is not set in environment variables."

\* get_serp_results that asks SerpAPI before it looks at the key
get_serp_results_key_checked_late(has_key, response) ==
  IF ~has_key \/ response.status # "ok"
  THEN [raised |-> TRUE, calls |-> <<"serpapi">>, results |-> <<>>,
        error |-> IF ~has_key THEN ConfigError ELSE "HTTPError"]
  ELSE [raised |-> FALSE, calls |-> <<"serpapi">>,
        results |-> response.organic_results, error |-> ""]

\* get_serp_results: RuntimeError without the key, before any request; else
\* one request, whose failure raises, and the response's organic_results
get_serp_results(has_key, response) ==
  IF ~has_key
  THEN [raised |-> TRUE, calls |-> <<>>, results |-> <<>>, error |-> ConfigError]
  ELSE IF response.status # "ok"
  THEN [raised |-> TRUE, calls |-> <<"serpapi">>, results |-> <<>>,
        error |-> "HTTPError"]
  ELSE [raised |-> FALSE, calls |-> <<"serpapi">>,
        results |-> response.organic_results, error |-> ""]

\* math.ceil(position / 10)
PageOf(position) == (position + PageSize - 1) \div PageSize

\* Python truth of an optional rank
Truthy(o) == o # None /\ The(o) # 0

\* Python truth of an optional url
TruthyUrl(o) == o # None /\ The(o) # <<>>

\* mark_your_site(row_domain), TRUE for the check mark
mark_your_site(row_domain, normalized_domain) ==
  row_domain = normalized_domain \/ EndsWith(row_domain, <<".">> \o normalized_domain)

\* `except Exception as e: st.error(...); st.stop()`
Halt(step, message) ==
  /\ errors' = Append(errors, [step |-> step, message |-> message])
  /\ app_pc' = "halted"

\* lines 53-69: the check of the two inputs, normalized_domain, url_candidate
Submit ==
  /\ app_pc = "form"
  /\ IF Strip(keyword_input) = <<>> \/ Strip(site_input) = <<>>
     THEN /\ errors' = Append(errors, [step |-> "form",
                                       message |-> "Please enter both a keyword and a site/URL."])
          /\ app_pc' = "done"
          /\ UNCHANGED request
     ELSE LET site_input_raw == Strip(site_input)
          IN /\ request' =
                  [site_input_raw |-> site_input_raw,
                   normalized_domain |-> normalize_target_domain(site_input_raw),
                   url_candidate |->
                     IF \/ StartsWith(Lower(site_input_raw), HTTP)
                        \/ StartsWith(Lower(site_input_raw), HTTPS)
                     THEN site_input_raw
                     ELSE HTTPS \o RStripSlash(site_input_raw)]
             /\ app_pc' = "serp"
             /\ UNCHANGED errors
  /\ UNCHANGED <<keyword_input, site_input, serp_key, groq_key, ranks, marked_rows,
                 net_calls, summarizer_calls, rendered>>
  /\ UNCHANGED <<normVars, rankVars, pageVars, analysisVars>>

\* serp_rows with the page number of each row
WithPages(rows) ==
  [i \in 1..Len(rows) |->
     [position |-> rows[i].position, title |-> rows[i].title,
      snippet |-> rows[i].snippet, link |-> rows[i].link,
      domain |-> rows[i].domain, page |-> PageOf(rows[i].position)]]

\* lines 77-92, on the response's organic_results
Resolve(results, normalized_domain, url_candidate) ==
  [serp_rows |-> WithPages(normalize_serp_results(results)),
   domain_rank |-> find_domain_rank(results, normalized_domain)[1],
   domain_first_url |-> find_domain_rank(results, normalized_domain)[2],
   domain_hits |-> find_all_domain_positions(results, normalized_domain),
   url_rank |-> find_url_rank(results, url_candidate)[1],
   matched_url |-> find_url_rank(results, url_candidate)[2]]

NoRanks ==
  [serp_rows |-> <<>>, domain_rank |-> None, domain_first_url |-> None,
   domain_hits |-> <<>>, url_rank |-> None, matched_url |-> None]

\* lines 71-92: the SERP query and the rank facts
SerpQuery ==
  /\ app_pc = "serp"
  /\ \E response \in
          {[status |-> "error", organic_results |-> <<>>]}
            \cup {[status |-> "ok", organic_results |-> l] :
                    l \in UNION {[1..n -> {[title |-> EntryTitle],
                                           [title |-> EntryTitle, link |-> PageA, position |-> 1],
                                           [title |-> EntryTitle, link |-> PageA, position |-> 4],
                                           [title |-> EntryTitle, link |-> PageB, position |-> 1],
                                           [title |-> EntryTitle, link |-> PageB, position |-> 4],
                                           [title |-> EntryTitle, link |-> PageX, position |-> 1],
                                           [title |-> EntryTitle, link |-> PageX, position |-> 4]}] :
                                 n \in 0..MaxResults}} :
        \E got \in {get_serp_results(serp_key, response)} :
           /\ net_calls' = net_calls \o got.calls
           /\ IF got.raised
              THEN /\ Halt("serp", got.error)
                   /\ UNCHANGED <<organic_results, ranks>>
              ELSE /\ organic_results' = got.results
                   /\ ranks' = Resolve(got.results, request.normalized_domain,
                                       request.url_candidate)
                   /\ app_pc' = "rank"
                   /\ UNCHANGED errors
  /\ UNCHANGED <<keyword_input, site_input, serp_key, groq_key, request, marked_rows,
                 summarizer_calls, rendered>>
  /\ UNCHANGED <<normVars, target, rank_out, pageVars, analysisVars>>

\* lines 94-141: the left column with the URL rank and the domain rank
RenderRank ==
  /\ app_pc = "rank"
  /\ rendered' = Append(rendered, "rank")
  /\ app_pc' = "tables"
  /\ UNCHANGED <<keyword_input, site_input, serp_key, groq_key, request, ranks,
                 marked_rows, net_calls, summarizer_calls, errors>>
  /\ UNCHANGED <<normVars, rankVars, pageVars, analysisVars>>

\* lines 143-182: the top-10 table and the full table, with is_your_site;
\* a DataFrame of no rows has no "domain" column and df["domain"] raises
RenderTables ==
  /\ app_pc = "tables"
  /\ IF ranks.serp_rows = <<>>
     THEN /\ Halt("tables", "KeyError: 'domain'")
          /\ UNCHANGED <<marked_rows, rendered>>
     ELSE /\ marked_rows' =
               [i \in 1..Len(ranks.serp_rows) |->
                  mark_your_site(ranks.serp_rows[i].domain, request.normalized_domain)]
          /\ rendered' = Append(rendered, "tables")
          /\ app_pc' = "seo"
          /\ UNCHANGED errors
  /\ UNCHANGED <<keyword_input, site_input, serp_key, groq_key, request, ranks,
                 net_calls, summarizer_calls>>
  /\ UNCHANGED <<normVars, rankVars, pageVars, analysisVars>>

\* lines 184-203: the url to analyze for the site, the top urls, and the
\* call of analyze_target_vs_top
StartAnalysis ==
  /\ app_pc = "seo"
  /\ an_pc' = "running"
  /\ an_keyword' = keyword_input
  /\ an_target_url' = IF TruthyUrl(ranks.matched_url) THEN ranks.matched_url
                      ELSE IF TruthyUrl(ranks.domain_first_url) THEN ranks.domain_first_url
                      ELSE None
  /\ an_top_urls' =
       [i \in 1..(IF Len(ranks.serp_rows) < TopCompetitors
                  THEN Len(ranks.serp_rows) ELSE TopCompetitors) |->
          ranks.serp_rows[i].link]
  /\ competitors' = <<>>
  /\ target_analysis' = None
  /\ fetch_log' = <<>>
  /\ app_pc' = "analysis"
  /\ UNCHANGED <<keyword_input, site_input, serp_key, groq_key, request, ranks,
                 marked_rows, net_calls, summarizer_calls, rendered, errors>>
  /\ UNCHANGED <<normVars, rankVars, pageVars>>

\* analyze_target_vs_top at work inside the request
AnalysisInRequest ==
  /\ app_pc = "analysis"
  /\ AnalysisStep

\* lines 205-240: the metrics table (or the note that nothing was analyzed)
RenderMetrics ==
  /\ app_pc = "analysis"
  /\ an_pc = "returned"
  /\ rendered' = Append(rendered, "metrics")
  /\ app_pc' = "explain"
  /\ UNCHANGED <<keyword_input, site_input, serp_key, groq_key, request, ranks,
                 marked_rows, net_calls, summarizer_calls, errors>>
  /\ UNCHANGED <<normVars, rankVars, pageVars, analysisVars>>

\* an effective rank that prefers the URL rank
effective_rank_url_first ==
  IF Truthy(ranks.url_rank) THEN ranks.url_rank ELSE ranks.domain_rank

\* `effective_rank = domain_rank if domain_rank else url_rank`
effective_rank == IF Truthy(ranks.domain_rank) THEN ranks.domain_rank ELSE ranks.url_rank

\* lines 250-255: `if effective_rank and effective_rank <= 3`
GreatNews ==
  /\ app_pc = "explain"
  /\ Truthy(effective_rank) /\ The(effective_rank) <= TopRank
  /\ rendered' = Append(rendered, "great_news")
  /\ app_pc' = "done"
  /\ UNCHANGED <<keyword_input, site_input, serp_key, groq_key, request, ranks,
                 marked_rows, net_calls, summarizer_calls, errors>>
  /\ UNCHANGED <<normVars, rankVars, pageVars, analysisVars>>

\* lines 256-268: summarize_with_groq, which returns a fixed text without
\* the Groq key and else asks Groq, whose failure raises
Explain ==
  /\ app_pc = "explain"
  /\ ~(Truthy(effective_rank) /\ The(effective_rank) <= TopRank)
  /\ summarizer_calls' = Append(summarizer_calls, effective_rank)
  /\ IF ~groq_key
     THEN /\ rendered' = Append(rendered, "explanation")
          /\ app_pc' = "done"
          /\ UNCHANGED <<net_calls, errors>>
     ELSE /\ net_calls' = Append(net_calls, "groq")
          /\ \E outcome \in FetchOutcomes :
                IF outcome = "ok"
                THEN /\ rendered' = Append(rendered, "explanation")
                     /\ app_pc' = "done"
                     /\ UNCHANGED errors
                ELSE /\ Halt("explain", "APIError")
                     /\ UNCHANGED rendered
  /\ UNCHANGED <<keyword_input, site_input, serp_key, groq_key, request, ranks,
                 marked_rows>>
  /\ UNCHANGED <<normVars, rankVars, pageVars, analysisVars>>

----------------------------------------------------------------------------
(* Inputs of a request: the two form fields and the two keys.              *)

SiteInputs ==
  {<<" ">>, <<"a", ".", "c">>, WWW \o WWW \o <<"a", ".", "c">>, PageA}

KeywordInputs == {<<" ">>, <<"k">>}

AppIdle ==
  /\ app_pc = "idle"
  /\ keyword_input = <<>>
  /\ site_input = <<>>
  /\ serp_key = FALSE
  /\ groq_key = FALSE
  /\ request = [site_input_raw |-> <<>>, normalized_domain |-> <<>>,
                url_candidate |-> <<>>]
  /\ ranks = NoRanks
  /\ marked_rows = <<>>
  /\ net_calls = <<>>
  /\ summarizer_calls = <<>>
  /\ rendered = <<>>
  /\ errors = <<>>

AppStart ==
  /\ app_pc = "form"
  /\ keyword_input \in KeywordInputs
  /\ site_input \in SiteInputs
  /\ serp_key \in BOOLEAN
  /\ groq_key \in BOOLEAN
  /\ request = [site_input_raw |-> <<>>, normalized_domain |-> <<>>,
                url_candidate |-> <<>>]
  /\ ranks = NoRanks
  /\ marked_rows = <<>>
  /\ net_calls = <<>>
  /\ summarizer_calls = <<>>
  /\ rendered = <<>>
  /\ errors = <<>>

\* the sections shown before the step that failed
ShownBefore(step) ==
  CASE step = "serp" -> <<>>
    [] step = "tables" -> <<"rank">>
    [] step = "explain" -> <<"rank", "tables", "metrics">>

\* what holds of every state of a request: without the SERP key nothing is
\* asked of SerpAPI, of a page or of the summarizer and nothing is shown but
\* the configuration error; at most one error is shown; once a step has
\* failed, what is shown are the sections before it, and the analysis and
\* the summarizer have run only if they come before it
FailureStopsRequest ==
  /\ Len(errors) <= 1
  /\ ~serp_key =>
       /\ net_calls = <<>> /\ fetch_log = <<>> /\ summarizer_calls = <<>>
       /\ rendered = <<>>
       /\ app_pc \in {"form", "serp", "done", "halted"}
       /\ app_pc = "halted" => errors = <<[step |-> "serp", message |-> ConfigError]>>
  /\ app_pc = "halted" =>
       /\ Len(errors) = 1
       /\ errors[1].step \in {"serp", "tables", "explain"}
       /\ rendered = ShownBefore(errors[1].step)
       /\ errors[1].step \in {"serp", "tables"} =>
            an_pc = "idle" /\ fetch_log = <<>> /\ summarizer_calls = <<>>
       /\ errors[1].step = "serp" => ranks = NoRanks
       /\ errors[1].step = "explain" => an_pc = "returned"

\* C9: without the SERP credential a submitted request fails with the
\* configuration error before any network call (no SERP query, no page
\* fetch, no summarizer call); once any step fails, one message is shown and
\* no later section is rendered or computed: the request stops there.
C9_FailureHaltsRequest ==
  /\ []FailureStopsRequest
  /\ [][(app_pc = "serp" /\ ~serp_key) => app_pc' = "halted"]_vars
  /\ [][app_pc # "halted"]_vars

\* a valid request without the SERP key, halted
C9_Witness ==
  /\ app_pc = "halted"
  /\ ~serp_key
  /\ groq_key
  /\ Strip(keyword_input) # <<>>
  /\ errors = <<[step |-> "serp", message |-> ConfigError]>>

----------------------------------------------------------------------------
(* The explanation step and the marked rows of a request.                  *)

\* the request has gone through the explanation step
Explained ==
  \/ app_pc = "done" /\ Len(rendered) = 4
  \/ app_pc = "halted" /\ errors[1].step = "explain"

\* the domain rank when one was found, the URL rank otherwise
RankToExplain ==
  IF ranks.domain_rank # None THEN ranks.domain_rank ELSE ranks.url_rank

InTopRanks(r) == r # None /\ The(r) \in 1..TopRank

WorseThanTopRanks(r) == r # None /\ The(r) > TopRank

\* the summarizer is called at most once, with the domain rank when one was
\* found and the URL rank otherwise, and never on a rank of 1, 2 or 3, in
\* which case the request ends with the great-news panel
ExplainsRankToExplain ==
  /\ Len(summarizer_calls) <= 1
  /\ summarizer_calls # <<>> =>
       summarizer_calls[1] = RankToExplain /\ ~InTopRanks(RankToExplain)
  /\ ~Explained => summarizer_calls = <<>>
  /\ (Explained /\ InTopRanks(RankToExplain)) =>
       summarizer_calls = <<>> /\ rendered[4] = "great_news"

\* C11 as stated: in every request that reaches the explanation step the
\* effective rank is the domain rank when one was found and the URL rank
\* otherwise; the summarizer is invoked only when that rank is greater than
\* 3, and not when it is 1, 2 or 3.
C11_SummarizerOnlyWhenWorseThanThree ==
  /\ ExplainsRankToExplain
  /\ summarizer_calls # <<>> => WorseThanTopRanks(RankToExplain)

\* C11: in every request that reaches the explanation step the effective
\* rank is the domain rank when one was found and the URL rank otherwise;
\* the summarizer is invoked, once and with that rank, exactly when the rank
\* is absent or greater than 3, and not when it is 1, 2 or 3.
C11_SummarizerUnlessTopThree ==
  /\ ExplainsRankToExplain
  /\ Explained =>
       (summarizer_calls # <<>> <=>
          (RankToExplain = None \/ WorseThanTopRanks(RankToExplain)))

\* a request whose site is nowhere in the results, explained by the summarizer
C11_Witness ==
  /\ app_pc = "done"
  /\ ranks.serp_rows # <<>>
  /\ ranks.domain_rank = None /\ ranks.url_rank = None
  /\ summarizer_calls = <<None>>
  /\ rendered[4] = "explanation"

\* the tables of the request have been shown
TablesShown == Len(rendered) >= 2

\* row i of the full table is one of the domain hits
IsDomainHit(i) ==
  \E j \in 1..Len(ranks.domain_hits) :
     /\ ranks.domain_hits[j].position = ranks.serp_rows[i].position
     /\ ranks.domain_hits[j].url = ranks.serp_rows[i].link

\* C12: for every site input and result list, the rows marked as the
\* target site's are exactly the entries find_all_domain_positions reports:
\* a row is marked if and only if its (position, link) is a domain hit.
C12_MarkedRowsAreDomainHits ==
  TablesShown =>
    /\ Len(marked_rows) = Len(ranks.serp_rows)
    /\ \A i \in 1..Len(marked_rows) : marked_rows[i] <=> IsDomainHit(i)

----------------------------------------------------------------------------
(* Specifications *)

\* the normalizer applied to the three forms of one input D
InitNormalize == NormStart /\ RankIdle /\ PageIdle /\ AnalysisIdle /\ AppIdle

NextNormalize == \E form \in NormForms : Normalize(form)

SpecNormalize == InitNormalize /\ [][NextNormalize]_vars

\* one resolver call on one result list and target
InitRank == RankStart /\ NormIdle /\ PageIdle /\ AnalysisIdle /\ AppIdle

NextRank ==
  \/ FindDomainRank
  \/ FindAllDomainPositions
  \/ FindUrlRank
  \/ NormalizeSerpResults

SpecRank == InitRank /\ [][NextRank]_vars

\* one analyze_page call on one html, url and keyword
InitPage == PageStart /\ NormIdle /\ RankIdle /\ AnalysisIdle /\ AppIdle

NextPage == AnalyzePage

SpecPage == InitPage /\ [][NextPage]_vars

\* one analyze_target_vs_top call, fetch by fetch
InitAnalyze == AnalysisStart /\ NormIdle /\ RankIdle /\ PageIdle /\ AppIdle

NextAnalyze ==
  \/ FetchCompetitor
  \/ FetchTarget
  \/ ReturnWithoutTarget

\* the call runs on: a step that can be taken is taken
SpecAnalyze == InitAnalyze /\ [][NextAnalyze]_vars /\ WF_vars(NextAnalyze)

\* one submitted request
Init == AppStart /\ NormIdle /\ RankIdle /\ PageIdle /\ AnalysisIdle

Next ==
  \/ Submit
  \/ SerpQuery
  \/ RenderRank
  \/ RenderTables
  \/ StartAnalysis
  \/ AnalysisInRequest
  \/ RenderMetrics
  \/ GreatNews
  \/ Explain

Spec == Init /\ [][Next]_vars

====
